---------------------------- MODULE Spec2Model ----------------------------
(***************************************************************************)
(* State-machine model of src/script.js: a two-body gravity animation.    *)
(*                                                                         *)
(* Numbers.  The script computes in IEEE doubles.  Here every real is a   *)
(* fixed-point integer with SCALE units per 1.0 (rounded to nearest), and *)
(* the integer-valued program constants (masses, radii, G) stay integers  *)
(* until they enter a real-valued expression.  Each arithmetic step of    *)
(* the script is one fixed-point operator applied in the script's order.  *)
(***************************************************************************)
EXTENDS Integers, Sequences, FiniteSets

VARIABLES
    m1,               \* primary body   {mass, radius, pos, vel}
    m2,               \* secondary body {mass, radius, pos, vel}
    m2Trail,          \* sequence of {x, y}
    animationFrameId, \* handle of the last requestAnimationFrame (0: null)
    isPaused,
    kickArrowState,   \* {active, dir, endTime}
    pendingFrames,    \* browser side: handles of the scheduled frame callbacks
    now,              \* browser side: Date.now(), in ms, with the moment the kick
                      \* arrow was last armed (or the page loaded) as time 0
    steps,            \* history: successful physics steps since the last reset
    kicks,            \* history: kicks applied since the last reset
    halted,           \* history: a step has halted since the last reset
    lastOp,           \* history: what happened last: "start" (page load), "step",
                      \* "halt", "idle" (a frame that stepped, halted, or found the
                      \* session paused), "kick", "kickRejected", "toggle", "reset",
                      \* "time"
    posLog            \* history: positions produced since the last kick/reset

vars == <<m1, m2, m2Trail, animationFrameId, isPaused, kickArrowState,
          pendingFrames, now, steps, kicks, halted, lastOp, posLog>>

---------------------------------------------------------------------------
(* Bounds of the model *)

SCALE == 100           \* fixed-point resolution: units per 1.0
MaxSteps == 125        \* physics steps per session explored by Spec
MaxKicks == 3          \* kicks per session
MaxKickStep == 1       \* Spec: kicks happen in the first steps or after a halt
MaxOverflow == 3       \* SpecTrail: steps explored beyond a full trail
MaxRange == 300        \* |dx|, |dy| (units) up to which a step is explored
ClockStep == 1000      \* ms by which the modelled clock advances
MaxShortSteps == 2     \* SpecKick, SpecDegenerate, SpecSetup: steps per session
MinSeparation == 20    \* SpecSetup: smallest and largest initial separation
MaxSeparation == 150

(* Inputs: the positions of the two sliders when "apply kick" is clicked. *)
KickAngles == {90}
KickMagnitudes == {0, 45 * SCALE}

(* SpecKick: the slider at its ends, and one step (0.5) above its minimum *)
WideAngles == {0, 90, 180, 270}
WideMagnitudes == {0, SCALE \div 2, 50 * SCALE}

---------------------------------------------------------------------------
(* Program constants, script.js lines 25-54 *)

CANVAS_WIDTH == 800
CANVAS_HEIGHT == 600
SIM_G == 3700
DT == SCALE \div 100                 \* 0.01
M1_MASS == 1000
M2_MASS == 1
M1_RADIUS == 20
M2_RADIUS == 5
MAX_TRAIL_LENGTH == 1000
INITIAL_M2_DISTANCE == 150
KICK_ARROW_DURATION == 1000
COLLISION_FACTOR == (8 * SCALE) \div 10   \* the literal 0.8 of updatePhysics

---------------------------------------------------------------------------
(* Fixed-point arithmetic *)

ToFixed(n) == n * SCALE

Abs(n) == IF n < 0 THEN -n ELSE n

\* n / d rounded to the nearest integer, d > 0
RoundDiv(n, d) == (n + (d \div 2)) \div d

\* a * b on fixed-point numbers
FMul(a, b) == RoundDiv(a * b, SCALE)

\* a / b on fixed-point numbers, b > 0; the quotient is split so that no
\* intermediate product exceeds 32 bits
FDiv(a, b) == (a \div b) * SCALE + RoundDiv((a % b) * SCALE, b)

RECURSIVE SqrtSearch(_, _, _)
SqrtSearch(n, lo, hi) ==
    IF lo >= hi THEN lo
    ELSE LET mid == (lo + hi + 1) \div 2
         IN  IF mid * mid <= n THEN SqrtSearch(n, mid, hi)
             ELSE SqrtSearch(n, lo, mid - 1)

\* integer square root, rounded to nearest
ISqrt(n) ==
    LET r == SqrtSearch(n, 0, 46340)
    IN  IF n - r * r > r THEN r + 1 ELSE r

\* Math.sqrt on a fixed-point number
FSqrt(a) == ISqrt(a * SCALE)

\* Math.cos / Math.sin of (deg * Math.PI / 180) for the slider angles used
CosDeg(deg) ==
    CASE deg = 0 -> SCALE [] deg = 90 -> 0 [] deg = 180 -> -SCALE [] deg = 270 -> 0

SinDeg(deg) ==
    CASE deg = 0 -> 0 [] deg = 90 -> SCALE [] deg = 180 -> 0 [] deg = 270 -> -SCALE

---------------------------------------------------------------------------
(* class Vector *)

Vector(x, y) == [x |-> x, y |-> y]

VAdd(a, b) == Vector(a.x + b.x, a.y + b.y)

VSub(a, b) == Vector(a.x - b.x, a.y - b.y)

VMult(v, scalar) == Vector(FMul(v.x, scalar), FMul(v.y, scalar))

VMag(v) == ISqrt(v.x * v.x + v.y * v.y)

VNorm(v) ==
    LET m == VMag(v)
    IN  IF m = 0 THEN Vector(0, 0)
        ELSE Vector(RoundDiv(v.x * SCALE, m), RoundDiv(v.y * SCALE, m))

VFromAngle(angleDeg, magnitude) ==
    Vector(FMul(magnitude, CosDeg(angleDeg)), FMul(magnitude, SinDeg(angleDeg)))

---------------------------------------------------------------------------
(* The script's module-level state as one value, so that a handler that   *)
(* calls another (startSimulation -> setupInitialConditions ->            *)
(* simulationLoop -> updatePhysics, draw) is a composition of operators.  *)

Session ==
    [m1 |-> m1, m2 |-> m2, m2Trail |-> m2Trail, isPaused |-> isPaused,
     kickArrowState |-> kickArrowState, animationFrameId |-> animationFrameId,
     pendingFrames |-> pendingFrames]

\* the state at line 49, before startSimulation() runs: m1 and m2 are still
\* undefined and are given placeholder bodies that setup overwrites
Blank ==
    LET none == [mass |-> 0, radius |-> 0, pos |-> Vector(0, 0), vel |-> Vector(0, 0)]
    IN  [m1 |-> none, m2 |-> none, m2Trail |-> <<>>, isPaused |-> FALSE,
         kickArrowState |-> [active |-> FALSE, dir |-> Vector(0, 0), endTime |-> 0],
         animationFrameId |-> 0, pendingFrames |-> {}]

\* window.requestAnimationFrame: a handle that no scheduled callback holds
RequestAnimationFrame(pending) ==
    CHOOSE id \in 1..(Cardinality(pending) + 1) :
        id \notin pending /\ \A j \in 1..(id - 1) : j \in pending

\* window.cancelAnimationFrame
CancelAnimationFrame(pending, id) == pending \ {id}

\* m2Trail = [] of setupInitialConditions
SetupTrailKept(trail) == trail

SetupTrail(trail) == <<>>

\* variant: the primary's mass left out
OrbitalSpeedMassless(mass, rMag) == FSqrt(FDiv(ToFixed(SIM_G), rMag))

\* orbitalSpeedScalar = Math.sqrt((SIM_G * m1.mass) / rMag)
OrbitalSpeed(mass, rMag) == FSqrt(FDiv(ToFixed(SIM_G * mass), rMag))

SetupInitialConditions(st, distance) ==
    LET p1 == [mass |-> M1_MASS, radius |-> M1_RADIUS,
               pos |-> Vector(ToFixed(CANVAS_WIDTH) \div 2, ToFixed(CANVAS_HEIGHT) \div 2),
               vel |-> Vector(0, 0)]
        p2 == [mass |-> M2_MASS, radius |-> M2_RADIUS,
               pos |-> Vector(p1.pos.x + ToFixed(distance), p1.pos.y),
               vel |-> Vector(0, 0)]
        rVec == VSub(p2.pos, p1.pos)
        rMag == VMag(rVec)
        s0 == [st EXCEPT !.isPaused = FALSE, !.m2Trail = SetupTrail(@),
                         !.kickArrowState.active = FALSE,
                         !.m1 = p1, !.m2 = p2]
    IN  IF rMag = 0
        THEN [s0 EXCEPT !.m2.vel = Vector(0, 0), !.isPaused = TRUE]
        ELSE [s0 EXCEPT !.m2.vel = Vector(0, -OrbitalSpeed(p1.mass, rMag))]

\* forceVec.mag() * forceVec.mag() at full resolution: x*x + y*y in units of
\* 1 / (SCALE * SCALE). In double precision the square of the square root is
\* x*x + y*y to within a few units in the last place, so nothing is rounded
\* to the model's resolution before the comparisons of lines 155 and 160
MagSquaredFine(forceVec) == forceVec.x * forceVec.x + forceVec.y * forceVec.y

\* distSq as a fixed-point number, as the force of line 167 divides by it
MagSquared(forceVec) == RoundDiv(MagSquaredFine(forceVec), SCALE)

DistSq(st) == MagSquared(VSub(st.m1.pos, st.m2.pos))

\* The double nearest to the coordinate n / 100, for a coordinate in
\* [256, 512) where doubles are 2^-44 apart: n * 2^44 / 100 = n * 2^42 / 25
\* and 2^42 = 4 (mod 25), so the double is off by ReprError(n) / (25 * 2^44).
\* Whole and quarter pixels are exact.
ReprError(n) == IF (4 * n) % 25 <= 12 THEN -((4 * n) % 25) ELSE 25 - ((4 * n) % 25)

\* By how much the doubles move distSq off x*x + y*y, in units of
\* 2^-44 / 1250: forceVec = m1.pos - m2.pos is computed without rounding (m1
\* is at whole pixels), so it carries the representation error of m2.pos,
\* and its square moves by 2 * offset * error. The rounding of the
\* products, the sum, the root and the square adds less than 4 * 2^-44,
\* that is less than 5000 of these units.
DistSqDrift(st) ==
    (st.m2.pos.x - st.m1.pos.x) * ReprError(st.m2.pos.x)
    + (st.m2.pos.y - st.m1.pos.y) * ReprError(st.m2.pos.y)

\* variant: the factor applied to the radii before squaring
CollisionThresholdScaledRadii(st) ==
    FMul(FMul(ToFixed(st.m1.radius + st.m2.radius), COLLISION_FACTOR),
         FMul(ToFixed(st.m1.radius + st.m2.radius), COLLISION_FACTOR))

\* (m1.radius + m2.radius) * (m1.radius + m2.radius) * 0.8
CollisionThreshold(st) ==
    FMul(FMul(ToFixed(st.m1.radius + st.m2.radius), ToFixed(st.m1.radius + st.m2.radius)),
         COLLISION_FACTOR)

\* the two early returns of updatePhysics (lines 155 and 160). Where
\* x*x + y*y is exactly the threshold the doubles decide: with radii 20 and 5
\* and the primary at (400, 300) there are 32 such positions, the drift is
\* -24000 at eight of them (distSq = 499.9999999999989: halt), 8200 at
\* eight (no halt) and 0 with both coordinates exact at sixteen, where
\* distSq is the square of the double nearest to sqrt(500),
\* 500.00000000000006 (no halt).
Halts(st) ==
    \/ MagSquaredFine(VSub(st.m1.pos, st.m2.pos)) < CollisionThreshold(st) * SCALE
    \/ /\ MagSquaredFine(VSub(st.m1.pos, st.m2.pos)) = CollisionThreshold(st) * SCALE
       /\ DistSqDrift(st) < 0
    \/ MagSquaredFine(VSub(st.m1.pos, st.m2.pos)) = 0

\* variant: no eviction
TrailShiftMissing(pushed) == pushed

\* variant: pop() instead of shift()
TrailShiftNewest(pushed) ==
    IF Len(pushed) > MAX_TRAIL_LENGTH THEN SubSeq(pushed, 1, Len(pushed) - 1) ELSE pushed

\* m2Trail.push(...); if (length > MAX_TRAIL_LENGTH) shift()
TrailShift(pushed) == IF Len(pushed) > MAX_TRAIL_LENGTH THEN Tail(pushed) ELSE pushed

TrailPush(trail, point) == TrailShift(Append(trail, point))

\* forceMag, gravityForce and accelerationM2 (lines 167-171)
Acceleration(forceVec, distSq, mass1, mass2) ==
    VMult(VMult(VNorm(forceVec), FDiv(ToFixed(SIM_G * mass1 * mass2), distSq)),
          FDiv(ToFixed(1), ToFixed(mass2)))

\* m2.vel = m2.vel.add(accelerationM2.mult(DT))
StepVelocity(vel, accelerationM2) == VAdd(vel, VMult(accelerationM2, DT))

\* m2.pos = m2.pos.add(m2.vel.mult(DT)), m2.vel being the velocity just set
StepPosition(pos, vel) == VAdd(pos, VMult(vel, DT))

\* variant: explicit Euler, the position advanced by the old velocity
MovedByOldVelocity(body, vel) ==
    [body EXCEPT !.vel = vel, !.pos = StepPosition(body.pos, body.vel)]

Moved(body, vel) == [body EXCEPT !.vel = vel, !.pos = StepPosition(body.pos, vel)]

\* the secondary body after a step that does not halt
StepSecondary(st) ==
    Moved(st.m2,
          StepVelocity(st.m2.vel,
                       Acceleration(VSub(st.m1.pos, st.m2.pos), DistSq(st),
                                    st.m1.mass, st.m2.mass)))

\* variant: the primary recoils by the momentum the secondary gained
StepPrimaryRecoils(st) == [st.m1 EXCEPT !.vel = VSub(@, st.m2.vel)]

\* the primary body after a step: updatePhysics never assigns to m1
StepPrimary(st) == st.m1

\* variant: the trail point pushed before the position is advanced
SteppedPushesOld(st, body) ==
    [st EXCEPT !.m1 = StepPrimary(st), !.m2 = body,
               !.m2Trail = TrailPush(@, [x |-> st.m2.pos.x, y |-> st.m2.pos.y])]

Stepped(st, body) ==
    [st EXCEPT !.m1 = StepPrimary(st), !.m2 = body,
               !.m2Trail = TrailPush(@, [x |-> body.pos.x, y |-> body.pos.y])]

\* variant: the early return without isPaused = true
HaltFlagKept(paused) == paused

\* isPaused = true of the two early returns
HaltFlag(paused) == TRUE

\* variant: the distance test placed after the integration
UpdatePhysicsMovesOnHalt(st) ==
    IF Halts(st) THEN [Stepped(st, StepSecondary(st)) EXCEPT !.isPaused = TRUE]
    ELSE Stepped(st, StepSecondary(st))

UpdatePhysics(st) ==
    IF Halts(st) THEN [st EXCEPT !.isPaused = HaltFlag(@)]
    ELSE Stepped(st, StepSecondary(st))

\* variant: the expiry of the arrow also drops the trail
DrawDropsTrail(st, time) ==
    IF st.kickArrowState.active /\ ~(time < st.kickArrowState.endTime)
    THEN [st EXCEPT !.kickArrowState.active = FALSE, !.m2Trail = <<>>]
    ELSE st

\* draw(): the only assignment is the expiry of the kick arrow
Draw(st, time) ==
    IF st.kickArrowState.active /\ ~(time < st.kickArrowState.endTime)
    THEN [st EXCEPT !.kickArrowState.active = FALSE]
    ELSE st

\* animationFrameId = requestAnimationFrame(simulationLoop)
Schedule(st, id) == [st EXCEPT !.animationFrameId = id, !.pendingFrames = @ \cup {id}]

ScheduleNext(st) == Schedule(st, RequestAnimationFrame(st.pendingFrames))

\* variant: no isPaused test around updatePhysics
SimulationLoopUnguarded(st, time) == ScheduleNext(Draw(UpdatePhysics(st), time))

SimulationLoop(st, time) ==
    ScheduleNext(Draw(IF ~st.isPaused THEN UpdatePhysics(st) ELSE st, time))

\* variant: the previous frame left scheduled
CancelPreviousMissing(st) == st

\* if (animationFrameId) cancelAnimationFrame(animationFrameId)
CancelPrevious(st) ==
    IF st.animationFrameId # 0
    THEN [st EXCEPT !.pendingFrames = CancelAnimationFrame(@, st.animationFrameId)]
    ELSE st

StartSimulation(st, time, distance) ==
    SimulationLoop(SetupInitialConditions(CancelPrevious(st), distance), time)

\* variant: the kick replaces the velocity
KickVelocityReplaced(vel, kickDeltaV) == kickDeltaV

\* applyKick() past its guard (lines 116-126)
KickVelocity(vel, kickDeltaV) == VAdd(vel, kickDeltaV)

\* variant: the trail kept across a kick
KickTrailKept(trail) == trail

\* m2Trail = [] of applyKick
KickTrail(trail) == <<>>

Kicked(st, time, kickDeltaV) ==
    [st EXCEPT !.m2.vel = KickVelocity(@, kickDeltaV),
               !.m2Trail = KickTrail(@),
               !.kickArrowState = [active |-> TRUE, dir |-> VNorm(kickDeltaV),
                                   endTime |-> time + KICK_ARROW_DURATION]]

\* variant: no isPaused guard
KickGuardMissing(paused) == FALSE

\* if (isPaused) { alert(...); return; }
KickGuard(paused) == paused

ApplyKick(st, time, angle, magnitude) ==
    IF KickGuard(st.isPaused) THEN st
    ELSE Kicked(st, time, VFromAngle(angle, magnitude))

\* variant: the space bar only pauses
TogglePauseSets(st) == [st EXCEPT !.isPaused = TRUE]

\* the keydown listener, for e.code === 'Space'
TogglePause(st) == [st EXCEPT !.isPaused = ~@]

---------------------------------------------------------------------------
(* Transitions *)

Install(st) ==
    /\ m1' = st.m1
    /\ m2' = st.m2
    /\ m2Trail' = st.m2Trail
    /\ isPaused' = st.isPaused
    /\ kickArrowState' = st.kickArrowState
    /\ animationFrameId' = st.animationFrameId
    /\ pendingFrames' = st.pendingFrames

\* the part of the plane in which steps are explored
InRange(st) ==
    /\ Abs(st.m2.pos.x - st.m1.pos.x) <= ToFixed(MaxRange)
    /\ Abs(st.m2.pos.y - st.m1.pos.y) <= ToFixed(MaxRange)

FirstFrame == StartSimulation(Blank, 0, INITIAL_M2_DISTANCE)

Init ==
    /\ m1 = FirstFrame.m1
    /\ m2 = FirstFrame.m2
    /\ m2Trail = FirstFrame.m2Trail
    /\ isPaused = FirstFrame.isPaused
    /\ kickArrowState = FirstFrame.kickArrowState
    /\ animationFrameId = FirstFrame.animationFrameId
    /\ pendingFrames = FirstFrame.pendingFrames
    /\ now = 0
    /\ steps = 1
    /\ kicks = 0
    /\ halted = FALSE
    /\ lastOp = "start"
    /\ posLog = FirstFrame.m2Trail

\* what a frame did, for the history variables
FrameOp(st) == IF st.isPaused THEN "idle" ELSE IF Halts(st) THEN "halt" ELSE "step"

FrameEffect(op, nx) ==
    /\ Install(nx)
    /\ steps' = IF op = "step" THEN steps + 1 ELSE steps
    /\ halted' = (halted \/ op = "halt")
    /\ posLog' = IF op = "step" THEN Append(posLog, nx.m2.pos) ELSE posLog
    /\ lastOp' = op
    /\ UNCHANGED <<now, kicks>>

FrameFrom(st, limit) ==
    /\ FrameOp(st) = "step" => (steps < limit /\ InRange(st))
    /\ FrameEffect(FrameOp(st), SimulationLoop(st, now))

\* one animation-frame callback: simulationLoop()
Frame(limit) ==
    \E id \in pendingFrames : FrameFrom([Session EXCEPT !.pendingFrames = @ \ {id}], limit)

\* click on the "apply kick" button with the sliders at (angle, magnitude)
KickWith(angles, magnitudes) ==
    \E angle \in angles, magnitude \in magnitudes :
        /\ isPaused \/ kicks < MaxKicks
        /\ Install(ApplyKick(Session, IF isPaused THEN now ELSE 0, angle, magnitude))
        /\ kicks' = IF isPaused THEN kicks ELSE kicks + 1
        /\ posLog' = IF isPaused THEN posLog ELSE <<>>
        /\ lastOp' = IF isPaused THEN "kickRejected" ELSE "kick"
        /\ now' = IF isPaused THEN now ELSE 0
        /\ UNCHANGED <<steps, halted>>

Kick == KickWith(KickAngles, KickMagnitudes)

\* keydown of the space bar
Toggle ==
    /\ Install(TogglePause(Session))
    /\ lastOp' = "toggle"
    /\ UNCHANGED <<now, steps, kicks, halted, posLog>>

ResetEffect(nx) ==
    /\ Install(nx)
    /\ steps' = Len(nx.m2Trail)
    /\ kicks' = 0
    /\ halted' = nx.isPaused
    /\ posLog' = nx.m2Trail
    /\ lastOp' = "reset"
    /\ UNCHANGED now

\* click on the reset button: startSimulation()
ResetAt(distance) == ResetEffect(StartSimulation(Session, now, distance))

Reset == ResetAt(INITIAL_M2_DISTANCE)

\* wall-clock time passes; the script reads Date.now() only for the kick
\* arrow (endTime = Date.now() + 1000 in applyKick, Date.now() < endTime in
\* draw), so the clock is followed only while the arrow is armed, and a kick
\* restarts it: only the time elapsed since the arrow was armed is observable
TimePasses ==
    /\ kickArrowState.active
    /\ now < kickArrowState.endTime
    /\ now' = now + ClockStep
    /\ lastOp' = "time"
    /\ UNCHANGED <<m1, m2, m2Trail, animationFrameId, isPaused, kickArrowState,
                   pendingFrames, steps, kicks, halted, posLog>>

\* Spec: the user kicks during the first steps of a session or after a halt
KickWindow == steps <= MaxKickStep \/ halted

Next ==
    \/ Frame(MaxSteps)
    \/ (KickWindow /\ Kick)
    \/ Toggle
    \/ Reset
    \/ TimePasses

Spec == Init /\ [][Next]_vars

\* SpecTrail: the user acts only once the trail has filled
TrailWindow == steps >= MAX_TRAIL_LENGTH

NextTrail ==
    \/ Frame(MAX_TRAIL_LENGTH + MaxOverflow)
    \/ (TrailWindow /\ Kick)
    \/ (TrailWindow /\ Toggle)
    \/ (TrailWindow /\ Reset)
    \/ TimePasses

SpecTrail == Init /\ [][NextTrail]_vars

\* SpecKick: short sessions, kicks at any time from the wider slider inputs
NextKick ==
    \/ Frame(MaxShortSteps)
    \/ KickWith(WideAngles, WideMagnitudes)
    \/ Toggle
    \/ Reset
    \/ TimePasses

SpecKick == Init /\ [][NextKick]_vars

\* SpecDegenerate: the script with INITIAL_M2_DISTANCE set to 0, the one
\* configuration that takes the rMag === 0 branch of setupInitialConditions
StartFrom(first, op) ==
    /\ m1 = first.m1
    /\ m2 = first.m2
    /\ m2Trail = first.m2Trail
    /\ isPaused = first.isPaused
    /\ kickArrowState = first.kickArrowState
    /\ animationFrameId = first.animationFrameId
    /\ pendingFrames = first.pendingFrames
    /\ now = 0
    /\ steps = Len(first.m2Trail)
    /\ kicks = 0
    /\ halted = first.isPaused
    /\ lastOp = op
    /\ posLog = first.m2Trail

InitDegenerate == StartFrom(StartSimulation(Blank, 0, 0), "start")

NextDegenerate ==
    \/ Frame(MaxShortSteps)
    \/ KickWith(WideAngles, WideMagnitudes)
    \/ Toggle
    \/ ResetAt(0)
    \/ TimePasses

SpecDegenerate == InitDegenerate /\ [][NextDegenerate]_vars

\* SpecSetup: the page loaded with INITIAL_M2_DISTANCE at any separation of
\* SetupSeparations; the first state is the one startSimulation() returns in,
\* after its simulationLoop() call
SetupSeparations == MinSeparation..MaxSeparation

InitSetup ==
    \E distance \in SetupSeparations :
        StartFrom(StartSimulation(Blank, 0, distance), "start")

NextSetup ==
    \/ Frame(MaxShortSteps)
    \/ Toggle

SpecSetup == InitSetup /\ [][NextSetup]_vars

---------------------------------------------------------------------------
(* Properties *)

\* a frame that found the session running: it either stepped or halted
RunningFrame == lastOp' \in {"step", "halt"}

\* the halt distance as the specification words it, ((r1 + r2) * 0.8)^2
SpecThreshold ==
    FMul(FMul(ToFixed(M1_RADIUS + M2_RADIUS), COLLISION_FACTOR),
         FMul(ToFixed(M1_RADIUS + M2_RADIUS), COLLISION_FACTOR))

\* the halt distance 0.8 * (r1 + r2)^2, from the radii alone
CodeThreshold ==
    (4 * ToFixed((M1_RADIUS + M2_RADIUS) * (M1_RADIUS + M2_RADIUS))) \div 5

\* C1 as stated: once a step has halted the session, the session is Paused
\* in every later state until a reset (a pause toggle cannot resume it).
C1_HaltedStaysPaused == halted => isPaused

\* C1 amended: once a step has halted the session, every frame tick until
\* the next reset leaves the session Paused and takes no step; a pause toggle
\* does set the session Running and a kick is then accepted, but the next
\* frame tick halts again.
C1_HaltedFramePauses ==
    (halted /\ lastOp \in {"step", "halt", "idle"}) => (isPaused /\ lastOp # "step")

\* a frame halted again after a toggle resumed the halted session and a kick
\* cleared the trail
C1_Witness == halted /\ lastOp = "halt" /\ isPaused /\ m2Trail = <<>>

\* C2 as stated: a step halts if and only if the squared distance is below
\* ((r1 + r2) * 0.8)^2 or zero, and otherwise advances the secondary.
C2_HaltsBelowScaledRadii ==
    [][RunningFrame =>
         IF DistSq(Session) < SpecThreshold \/ DistSq(Session) = 0
         THEN isPaused' /\ m2' = m2
         ELSE ~isPaused' /\ m2'.pos # m2.pos /\ m2'.vel # m2.vel]_vars

\* C2 amended: a step halts if and only if the squared distance is below
\* 0.8 * (r1 + r2)^2 (500 for radii 20 and 5); at or above it the step
\* continues and advances the secondary's velocity and position.
\* (Compared at full resolution, x*x + y*y against the threshold; a squared
\* distance of exactly the threshold on the model's grid is either side of
\* it in double precision.)
C2_HaltsBelowCodeThreshold ==
    [][RunningFrame =>
         IF MagSquaredFine(VSub(m1.pos, m2.pos)) < CodeThreshold * SCALE
         THEN isPaused' /\ m2' = m2
         ELSE IF MagSquaredFine(VSub(m1.pos, m2.pos)) > CodeThreshold * SCALE
         THEN ~isPaused' /\ m2'.pos # m2.pos /\ m2'.vel # m2.vel
         ELSE m2' = m2 \/ (m2'.pos # m2.pos /\ m2'.vel # m2.vel)]_vars

\* a step halted at a distance of at least 0.8 * (r1 + r2)
C2_Witness == lastOp = "halt" /\ DistSq(Session) >= SpecThreshold

\* C3: a step taken with the bodies within 0.8 * (r1 + r2) of each other
\* pauses the session and leaves the secondary's position and velocity and
\* the trail as they were.
C3_HaltLeavesBodyAndTrail ==
    [][(RunningFrame /\ DistSq(Session) <= SpecThreshold) =>
         (isPaused' /\ m2' = m2 /\ m2Trail' = m2Trail)]_vars

\* a step halted with the bodies within 0.8 * (r1 + r2), a trail on display
C3_Witness ==
    lastOp = "halt" /\ DistSq(Session) <= SpecThreshold /\ Len(m2Trail) > 1

\* C4: a kick attempted on a Paused session changes neither body, nor the
\* trail, the kick arrow or the pause flag.
C4_KickWhilePausedRejected ==
    [][(lastOp' \in {"kick", "kickRejected"} /\ isPaused) =>
         UNCHANGED <<m1, m2, m2Trail, kickArrowState, isPaused>>]_vars

\* a kick was attempted on a paused session that has a trail
C4_Witness == lastOp = "kickRejected" /\ isPaused /\ Len(m2Trail) > 0

\* C5: right after a kick applied to a Running session the trail is empty.
C5_KickClearsTrail == lastOp = "kick" => Len(m2Trail) = 0

\* the first kick of a session, of magnitude 0, applied to a full trail
C5_Witness ==
    /\ lastOp = "kick"
    /\ kicks = 1
    /\ steps >= MAX_TRAIL_LENGTH
    /\ kickArrowState.dir = Vector(0, 0)

\* C6: the trail never holds more than MAX_TRAIL_LENGTH points.
C6_TrailBounded == Len(m2Trail) <= MAX_TRAIL_LENGTH

\* the trail is full and older points have been evicted
C6_Witness == Len(m2Trail) = MAX_TRAIL_LENGTH /\ steps > MAX_TRAIL_LENGTH

\* C7: after more than MAX_TRAIL_LENGTH steps with no kick or reset between
\* them, the trail is exactly the last MAX_TRAIL_LENGTH positions produced,
\* in the order they were produced.
C7_TrailIsLastPositions ==
    Len(posLog) > MAX_TRAIL_LENGTH =>
        /\ Len(m2Trail) = MAX_TRAIL_LENGTH
        /\ m2Trail = SubSeq(posLog, Len(posLog) - MAX_TRAIL_LENGTH + 1, Len(posLog))

\* two or more points have been evicted
C7_Witness == lastOp = "step" /\ Len(posLog) >= MAX_TRAIL_LENGTH + 2

\* the bodies as setupInitialConditions leaves them
AfterSetup == SetupInitialConditions(Blank, INITIAL_M2_DISTANCE)

\* C8 as stated: a reset yields a Running session with an empty trail, an
\* inactive kick arrow and the bodies as initialisation places them.
C8_ResetEmptiesTrail ==
    lastOp = "reset" =>
        /\ ~isPaused
        /\ Len(m2Trail) = 0
        /\ ~kickArrowState.active
        /\ m1 = AfterSetup.m1
        /\ m2 = AfterSetup.m2

\* C8 amended: a reset yields a Running session with an inactive kick arrow
\* whose bodies and trail are those of the page right after loading: the
\* reset runs the first frame itself, so the secondary has taken one step and
\* the trail holds that one position.
C8_ResetIsFirstFrame ==
    lastOp = "reset" =>
        /\ ~isPaused
        /\ ~kickArrowState.active
        /\ m1 = FirstFrame.m1
        /\ m2 = FirstFrame.m2
        /\ m2Trail = FirstFrame.m2Trail
        /\ m2Trail = <<m2.pos>>

\* a reset that found the kick arrow armed and not yet expired
C8_Witness == lastOp = "reset" /\ now < kickArrowState.endTime

\* C9: a pause toggle inverts the pause flag, so that two in a row restore
\* it, and changes neither body, nor the trail or the kick arrow.
C9_ToggleFlipsFlagOnly ==
    [][lastOp' = "toggle" =>
         (isPaused' = ~isPaused /\ UNCHANGED <<m1, m2, m2Trail, kickArrowState>>)]_vars

\* a toggle resumed a session in flight
C9_Witness == lastOp = "toggle" /\ ~isPaused /\ ~halted /\ Len(m2Trail) > 1

\* C10: the primary stays at the centre of the canvas with zero velocity, and
\* both bodies keep their mass and radius.
C10_PrimaryFixed ==
    /\ m1.pos = Vector(ToFixed(CANVAS_WIDTH) \div 2, ToFixed(CANVAS_HEIGHT) \div 2)
    /\ m1.vel = Vector(0, 0)
    /\ m1.mass = M1_MASS /\ m1.radius = M1_RADIUS
    /\ m2.mass = M2_MASS /\ m2.radius = M2_RADIUS

\* the secondary has been kicked and has travelled
C10_Witness == lastOp = "step" /\ kicks > 0 /\ steps >= 50

\* the polar delta-velocity of a kick: (magnitude*cos(angle), magnitude*sin(angle))
PolarDelta(angle, magnitude) ==
    Vector(FMul(magnitude, CosDeg(angle)), FMul(magnitude, SinDeg(angle)))

(* C11: a kick accepted by a running session leaves it running, adds the
   polar delta-velocity of some slider input (the one whose direction the
   kick arrow then shows) to the secondary's velocity, however large the
   result, and leaves the secondary's position and the primary as they were *)
C11_KickAddsPolarDelta ==
    [][(lastOp' \in {"kick", "kickRejected"} /\ ~isPaused) =>
         /\ lastOp' = "kick"
         /\ ~isPaused'
         /\ m2'.pos = m2.pos
         /\ m2'.mass = m2.mass
         /\ m1' = m1
         /\ \E angle \in WideAngles, magnitude \in WideMagnitudes :
               /\ m2'.vel.x = m2.vel.x + PolarDelta(angle, magnitude).x
               /\ m2'.vel.y = m2.vel.y + PolarDelta(angle, magnitude).y
               /\ kickArrowState'.dir = VNorm(PolarDelta(angle, magnitude))]_vars

\* a third full-strength kick has been added along the velocity: the speed
\* has grown by 150 beyond the orbital speed
C11_Witness ==
    /\ lastOp = "kick"
    /\ kicks = MaxKicks
    /\ ~isPaused
    /\ m2.vel.y <= -(ToFixed(150) + OrbitalSpeed(M1_MASS, ToFixed(INITIAL_M2_DISTANCE)))
    /\ kickArrowState.dir = Vector(0, -SCALE)

FrameOps == {"step", "halt", "idle"}

(* C12: with a zero initial separation, start and reset leave the session
   paused with the secondary at rest on the primary; afterwards no frame
   tick, running or paused, changes the secondary, so its position stays the
   primary's and nothing is ever recorded in the trail *)
C12_ZeroSeparationFrozen ==
    /\ [](/\ m2.pos = m1.pos
          /\ m2Trail = <<>>
          /\ lastOp \in {"start", "reset"} => (isPaused /\ m2.vel = Vector(0, 0))
          /\ lastOp \in FrameOps => isPaused)
    /\ [][lastOp' \in FrameOps => m2' = m2]_vars

\* the session was set running by hand and kicked, and the next frame tick
\* halted: the secondary has the kick's velocity and has not left the primary
C12_Witness ==
    /\ lastOp = "halt"
    /\ kicks > 0
    /\ m2.vel # Vector(0, 0)
    /\ m2.pos = m1.pos
    /\ isPaused

\* the bodies' separation and the secondary's velocity are perpendicular and
\* the speed is the circular-orbit speed for that separation, each up to the
\* rounding of the coordinates to the model's resolution
CircularOrbit(sep, vel) ==
    /\ VMag(sep) > 0
    /\ Abs(vel.x * sep.x + vel.y * sep.y)
         <= Abs(sep.x) + Abs(sep.y) + Abs(vel.x) + Abs(vel.y)
    /\ Abs(FMul(vel.x, vel.x) + FMul(vel.y, vel.y)
            - FDiv(ToFixed(SIM_G * m1.mass), VMag(sep)))
         <= 2 * (RoundDiv(Abs(vel.x) + Abs(vel.y), SCALE) + 1)

\* C13 as stated: immediately after initialize with a separation D > 0 the
\* secondary's velocity is perpendicular to the separation vector and its
\* speed v satisfies v*v*D = SIM_G*m1.mass.
C13_CircularOrbitAfterInitialize ==
    lastOp = "start" => CircularOrbit(VSub(m2.pos, m1.pos), m2.vel)

\* the step that startSimulation's simulationLoop() call has taken, undone:
\* the position before m2.pos = m2.pos + m2.vel * DT and the velocity before
\* m2.vel = m2.vel + accelerationM2 * DT
PosBeforeStep == VSub(m2.pos, VMult(m2.vel, DT))
VelBeforeStep ==
    VSub(m2.vel, VMult(Acceleration(VSub(m1.pos, PosBeforeStep),
                                    MagSquared(VSub(m1.pos, PosBeforeStep)),
                                    m1.mass, m2.mass), DT))

(* C13 amended: the state in which initialize returns is the circular-orbit
   state advanced by the one step that startSimulation takes before it
   returns. Undoing that step gives a separation along the x axis and a
   velocity exactly perpendicular to it, at the circular-orbit speed (v*v
   equal to SIM_G*m1.mass/D up to the rounding of v). When the separation is
   inside the halt distance the first step halts, and the setup state itself
   is the one observed. *)
C13_CircularOrbitBeforeFirstStep ==
    lastOp = "start" =>
        IF steps = 1
        THEN /\ ~isPaused
             /\ PosBeforeStep.y = m1.pos.y
             /\ PosBeforeStep.x > m1.pos.x
             /\ VelBeforeStep.x = 0
             /\ VelBeforeStep.y < 0
             /\ CircularOrbit(VSub(PosBeforeStep, m1.pos), VelBeforeStep)
             /\ Abs(FMul(VelBeforeStep.y, VelBeforeStep.y)
                     - FDiv(ToFixed(SIM_G * m1.mass), PosBeforeStep.x - m1.pos.x))
                  <= RoundDiv(-VelBeforeStep.y, SCALE) + 1
        ELSE /\ isPaused
             /\ m2.pos.y = m1.pos.y
             /\ m2.vel.x = 0
             /\ m2.vel.y < 0
             /\ CircularOrbit(VSub(m2.pos, m1.pos), m2.vel)

\* the page has loaded with the shipped separation of 150: one step has been
\* taken, the velocity has an x component, and undoing the step gives the
\* separation of 150
C13_Witness ==
    /\ lastOp = "start"
    /\ steps = 1
    /\ ~isPaused
    /\ m2.vel.x < 0
    /\ PosBeforeStep.x - m1.pos.x = ToFixed(INITIAL_M2_DISTANCE)
    /\ Len(m2Trail) = 1

(* C14: a frame tick that takes a step first changes the velocity, by an
   impulse that points from the secondary toward the primary (its cross
   product with the separation is zero up to the rounding of the unit vector
   and of the impulse), and then
   advances the position by the NEW velocity times DT; with the model's
   resolution this differs from advancing by the old velocity *)
C14_VelocityBeforePosition ==
    [][lastOp' = "step" =>
         /\ m2'.vel = VAdd(m2.vel, VMult(Acceleration(VSub(m1.pos, m2.pos),
                                   DistSq(Session), m1.mass, m2.mass), DT))
         /\ (m2'.vel.x - m2.vel.x) * (m1.pos.x - m2.pos.x)
              + (m2'.vel.y - m2.vel.y) * (m1.pos.y - m2.pos.y) > 0
         /\ Abs((m2'.vel.x - m2.vel.x) * (m1.pos.y - m2.pos.y)
              - (m2'.vel.y - m2.vel.y) * (m1.pos.x - m2.pos.x))
              <= ((Abs(m2'.vel.x - m2.vel.x) + Abs(m2'.vel.y - m2.vel.y)) \div SCALE + 1)
                 * (Abs(m1.pos.x - m2.pos.x) + Abs(m1.pos.y - m2.pos.y))
         /\ m2'.pos = VAdd(m2.pos, VMult(m2'.vel, DT))]_vars

\* a step on a kicked orbit whose old and new velocity advance the position
\* to different points
C14_Witness ==
    /\ lastOp = "step"
    /\ kicks > 0
    /\ Len(posLog) >= 2
    /\ m2.pos # VAdd(posLog[Len(posLog) - 1],
                      VMult(VSub(m2.vel, VMult(Acceleration(
                          VSub(m1.pos, posLog[Len(posLog) - 1]),
                          MagSquared(VSub(m1.pos, posLog[Len(posLog) - 1])),
                          m1.mass, m2.mass), DT)), DT))

\* what a frame tick's physics alone leaves of the bodies, trail and pause flag
AfterPhysics(st) == IF st.isPaused THEN st ELSE UpdatePhysics(st)

(* C15: the redraw of a frame tick touches the kick arrow only in its active
   flag, which it clears exactly when the arrow is active and its end time
   has been reached; the bodies, the trail and the pause flag come out of the
   tick as the physics alone leaves them, whether or not the arrow expired *)
C15_RedrawChangesOnlyActiveFlag ==
    [][lastOp' \in {"step", "halt", "idle"} =>
         /\ kickArrowState' = [kickArrowState EXCEPT !.active =
                                 @ /\ now < kickArrowState.endTime]
         /\ m1' = AfterPhysics(Session).m1
         /\ m2' = AfterPhysics(Session).m2
         /\ m2Trail' = AfterPhysics(Session).m2Trail
         /\ isPaused' = AfterPhysics(Session).isPaused]_vars

\* the arrow of a kick has expired in a redraw and the latest frame tick
\* took a step, with points on the trail
C15_Witness ==
    /\ lastOp = "step"
    /\ kicks > 0
    /\ ~kickArrowState.active
    /\ kickArrowState.endTime > 0
    /\ now >= kickArrowState.endTime
    /\ Len(m2Trail) > 0

(* C16: a frame tick of a paused session performs no physics: both bodies
   and the trail are unchanged and the session is still paused after it, so
   any number of such ticks leaves them unchanged until a toggle or reset *)
C16_PausedTickNoPhysics ==
    [][(lastOp' \in {"step", "halt", "idle"} /\ isPaused) =>
         (lastOp' = "idle" /\ isPaused' /\ UNCHANGED <<m1, m2, m2Trail>>)]_vars

\* a frame tick of a session paused by hand in mid-orbit, not by a halt
C16_Witness ==
    /\ lastOp = "idle"
    /\ isPaused
    /\ ~halted
    /\ Len(m2Trail) > 1
    /\ ~Halts(Session)

(* C17: once a step has halted, nothing but a reset moves the secondary:
   frame ticks, pause toggles and kicks (accepted or rejected) all leave its
   position where it halted, and every frame tick of the running session
   halts again and pauses it *)
C17_HaltedPositionFixed ==
    [][(halted /\ lastOp' # "reset") =>
         /\ m2'.pos = m2.pos
         /\ halted'
         /\ lastOp' \in {"step", "halt"} => (lastOp' = "halt" /\ isPaused')]_vars

\* after a halt the session was set running again and kicked with the last
\* kick of its budget, and the following frame tick halted once more
C17_Witness ==
    /\ halted
    /\ lastOp = "halt"
    /\ kicks = MaxKicks
    /\ kickArrowState.active
    /\ Halts(Session)

(* C18: a non-empty trail always ends with the secondary's current position;
   a frame tick that takes a step appends exactly one entry, the position
   after the step (dropping the oldest entry of a full trail), and every
   other operation but a reset, whose own first step records the start of
   the new trail, leaves the trail as it was or empties it *)
C18_TrailEndsAtBody ==
    /\ [](Len(m2Trail) > 0 =>
            m2Trail[Len(m2Trail)] = [x |-> m2.pos.x, y |-> m2.pos.y])
    /\ [][IF lastOp' = "step"
          THEN m2Trail' = IF Len(m2Trail) < MAX_TRAIL_LENGTH
                          THEN Append(m2Trail, [x |-> m2'.pos.x, y |-> m2'.pos.y])
                          ELSE Append(Tail(m2Trail), [x |-> m2'.pos.x, y |-> m2'.pos.y])
          ELSE IF lastOp' = "reset"
          THEN m2Trail' = << [x |-> m2'.pos.x, y |-> m2'.pos.y] >>
          ELSE m2Trail' = m2Trail \/ m2Trail' = <<>>]_vars

\* steps taken after a kick emptied the trail: the trail is shorter than the
\* number of steps of the session and ends where the body is
C18_Witness ==
    /\ lastOp = "step"
    /\ kicks > 0
    /\ Len(m2Trail) > 1
    /\ Len(m2Trail) < steps
    /\ m2Trail[Len(m2Trail)].x = m2.pos.x

(* C19: whatever resets and frame callbacks have run, exactly one
   animation-frame callback is pending, and it is the one animationFrameId
   names: a reset cancels the scheduled callback before its own loop
   schedules the next, so one display refresh runs one callback, which takes
   at most one physics step *)
C19_OneFramePending ==
    /\ [](pendingFrames = {animationFrameId})
    /\ [][lastOp' \in {"step", "halt", "idle"} => steps' <= steps + 1]_vars

\* a frame callback ran after a reset that followed a kick: the arrow still
\* carries the kick's end time while the session's kick count is back at 0
C19_Witness ==
    /\ lastOp = "step"
    /\ kicks = 0
    /\ kickArrowState.endTime > 0
    /\ steps = 2
    /\ Cardinality(pendingFrames) = 1

===========================================================================
